---- MODULE Spec2Model ----
(***************************************************************************)
(* A state-machine model of summarizeOrg (src/src/index.ts): the five      *)
(* collection phases, the asynchronous test-job poller, the derived        *)
(* metrics and finish.  The remote org, the sfdx/sf command line, the      *)
(* limits endpoint and the file system are the environment: every          *)
(* external call draws its outcome from a small set.                       *)
(***************************************************************************)
EXTENDS Integers, Sequences, FiniteSets, TLC

VARIABLES
    pc,                  \* position of the single thread of control in summarizeOrg
    flags,               \* the flags argument of summarizeOrg
    info,                \* OrgInfo returned by getOrgInfo
    infoFailed,          \* history: getOrgInfo's command threw (and was swallowed)
    baseSummary,         \* the report under construction
    errors,              \* the run's error list (const errors: any[])
    orgSummaryDirectory, \* the run directory, as the path string the code builds
    cwd,                 \* process.cwd(), an absolute path
    dirs,                \* directories that exist (absolute paths)
    files,               \* regular files that exist (absolute paths)
    status,              \* pollTestRunResult's local variable
    lastTick,            \* history: the answer to the last job-status query of the
                         \* poll loop, as its kind and its number of rows
    pollResult,          \* history: the value pollTestRunResult returned
    started,             \* history: enabled phases in the order their block was entered
    finished,            \* history: enabled phases in the order their block was left
    testRunId,           \* the run identifier extractTestRunId returned
    testRunRow,          \* history: the ApexTestRunResult row the Tests block just read
    callFailed,          \* history: the call sites of the phase block run last at
                         \* which a collector call failed
    summary,             \* the value summarizeOrg returned to its caller
    saved,               \* the content written to orgsummary.json
    call                 \* the last call of one function on its own: the function,
                         \* the answers it was given and the value it returned

vars == << call, pc, flags, info, infoFailed, baseSummary, errors, orgSummaryDirectory,
           cwd, dirs, files, status, lastTick, pollResult, started, finished,
           testRunId, testRunRow, callFailed, summary, saved >>

-----------------------------------------------------------------------------
(* Bounds of the model. *)

\* most rows an inventory query returns
MaxRows == 1

\* largest line count of a coverage row, and most rows of a coverage answer
MaxLines == 12
MaxCoverageRows == 1

\* most entries of a limits response
MaxLimits == 2

\* most rows of the SecurityHealthCheckRisks answer
MaxRisks == 3

\* most rows a data-point query returns when queryDataPoints is called on its own
MaxInventoryRows == 3

-----------------------------------------------------------------------------
(* JavaScript values that cross the boundary to the environment. *)

JSUndefined == [t |-> "undefined"]
JSNull == [t |-> "null"]
JSNum(n) == [t |-> "number", n |-> n]
\* a string that is a word (a status, a risk type, a date)
JSStr(s) == [t |-> "string", s |-> s]
\* a string that is the decimal text of a number, as its sequence of digits
JSText(d) == [t |-> "string", digits |-> d]

\* a === b: same type and same value, no conversion
StrictEquals(a, b) == a = b

\* the decimal text of a small natural number
NumToText(n) == IF n < 10 THEN << n >> ELSE << n \div 10, n % 10 >>

\* csv-parse with { columns: true } and no cast option: every cell of a
\* record is a string, a numeric column included
CsvNumber(n) == JSText(NumToText(n))
CsvWord(w) == JSStr(w)

RECURSIVE DigitsValue(_)
DigitsValue(d) ==
    IF Len(d) = 0 THEN 0 ELSE 10 * DigitsValue(SubSeq(d, 1, Len(d) - 1)) + d[Len(d)]

\* Number(v) for a whole number or a decimal text
ToNumber(v) == IF v.t = "number" THEN v.n ELSE DigitsValue(v.digits)

\* String(v) for a whole number or a decimal text
ToText(v) == IF v.t = "number" THEN NumToText(v.n) ELSE v.digits

\* a + b: concatenation as soon as one operand is a string
JSAdd(a, b) ==
    IF a.t = "string" \/ b.t = "string"
    THEN JSText(ToText(a) \o ToText(b))
    ELSE JSNum(a.n + b.n)

RECURSIVE Gcd(_, _)
Gcd(a, b) == IF b = 0 THEN a ELSE Gcd(b, a % b)

\* a / b on JavaScript numbers, for naturals a and b: a whole number, a
\* fraction in lowest terms, or NaN / Infinity when b is 0 (rounding of
\* floating point is not modelled)
Divide(a, b) ==
    IF b = 0
    THEN IF a = 0 THEN [t |-> "number", special |-> "NaN"]
                  ELSE [t |-> "number", special |-> "Infinity"]
    ELSE IF a % b = 0 THEN JSNum(a \div b)
    ELSE [t |-> "number", num |-> a \div Gcd(a, b), den |-> b \div Gcd(a, b)]

\* a - b: NaN unless both operands are numbers
Minus(a, b) ==
    IF a.t = "number" /\ b.t = "number" /\ "n" \in DOMAIN a /\ "n" \in DOMAIN b
    THEN JSNum(a.n - b.n)
    ELSE [t |-> "number", special |-> "NaN"]

\* a ?? b
Nullish(a, b) == IF a.t \in { "null", "undefined" } THEN b ELSE a

\* A field that is absent from the report (an optional property never assigned).
Absent == [absent |-> TRUE]

-----------------------------------------------------------------------------
(* Paths.  A path string is a record: absolute or relative, and its        *)
(* components.  Absolute locations are sequences of components.            *)

Cwd0 == << "home", "proj" >>
DirName == << "opt", "lib" >>
TempProject == "tempSFDXProject"
Timestamp == "1700000000000"

NonEmpty(s) == s # ""

\* `${p}/${a}/${b}`: appending components to a path string; an empty
\* component leaves "//", which names the same location as "/"
PathAppend(p, parts) == [p EXCEPT !.parts = @ \o SelectSeq(parts, NonEmpty)]

\* the location a path string names when the working directory is c
Resolve(c, p) == IF p.abs THEN p.parts ELSE c \o p.parts

\* the location reached from c by n ".." steps ("/.." is "/")
Up(c, n) == SubSeq(c, 1, IF Len(c) > n THEN Len(c) - n ELSE 0)

Prefixes(loc) == { SubSeq(loc, 1, k) : k \in 0..Len(loc) }

Parent(loc) == SubSeq(loc, 1, Len(loc) - 1)

\* the values of flags.outputdirectory the model draws from
NoOutputDirectory == [given |-> FALSE]
OutputDirectories ==
    { NoOutputDirectory,
      [given |-> TRUE, abs |-> TRUE, parts |-> << "srv", "out" >>],
      [given |-> TRUE, abs |-> FALSE, parts |-> << "out" >>],
      [given |-> TRUE, abs |-> FALSE, parts |-> << "a", "b" >>] }

-----------------------------------------------------------------------------
(* Flags. *)

\* flags.metadata: undefined, the empty string, or a comma-separated list,
\* held as the parts split(',') yields
MetadataUndefined == [defined |-> FALSE, parts |-> << >>]
MetadataEmpty == [defined |-> TRUE, parts |-> << >>]
MetadataList == [defined |-> TRUE, parts |-> << "Type1", "Type2" >>]
MetadataFlags == { MetadataUndefined, MetadataEmpty, MetadataList }

\* the default list imported from ./data/DataPoints
dataPoints == << "ApexClass" >>

\* targetusername is held as whether it was given; it is varied where the
\* code branches on it, in the Health Score phase
Flags ==
    { f \in [ healthcheck : BOOLEAN, limits : BOOLEAN, codeanalysis : BOOLEAN,
              tests : BOOLEAN, metadata : MetadataFlags,
              outputdirectory : OutputDirectories, keepdata : BOOLEAN,
              targetusername : BOOLEAN ] :
        f.healthcheck \/ f.targetusername }

\* lines 45-50 of summarizeOrg: undefined when flags.metadata === ""
selectedDataPoints(f) ==
    IF f.metadata.defined /\ f.metadata.parts = << >>
    THEN << >>
    ELSE IF f.metadata.defined THEN f.metadata.parts ELSE dataPoints

-----------------------------------------------------------------------------
(* The environment's answers. *)

SeqsUpTo(S, n) == UNION { [1..k -> S] : k \in 0..n }

\* execSync of a command line: it returns, or it throws because the
\* command exited non-zero
CommandOutcomes == { "ok", "fail" }

\* The shell opens the target of "> file" before it runs the command: the
\* file is created when its directory exists, else the command line fails.
RedirectOk(c, d, p) == Parent(Resolve(c, p)) \in d
Redirected(c, d, f, p) == IF RedirectOk(c, d, p) THEN f \cup { Resolve(c, p) } ELSE f

\* What one sfdx data:query does, as queryMetadata sees it:
\*   "rows"        the command wrote a CSV that parses to the rows
\*   "unsupported" the command failed, stderr says the sObject type is not supported
\*   "failed"      the command failed with any other stderr
\*   "nostderr"    reading or parsing the output threw: an Error with no stderr
QueryKinds == { "rows", "unsupported", "failed", "nostderr" }

-----------------------------------------------------------------------------
(* queryMetadata and handleQueryError. *)

\* handleQueryError(dataPoint, error, errors): reads error.stderr, so it
\* throws a TypeError for an error that has none; else it pushes onto the
\* list it was handed
handleQueryError(kind, errs) ==
    IF kind = "nostderr"
    THEN [threw |-> TRUE, errors |-> errs]
    ELSE IF kind = "unsupported"
         THEN [threw |-> FALSE, errors |-> Append(errs, "null")]
         ELSE [threw |-> FALSE, errors |-> Append(errs, "error")]

\* queryMetadata(query, outputCsv, orgAlias) for an environment answer q =
\* [kind, rows]: the rows on success; on a failure handleQueryError gets a
\* fresh list [], so nothing reaches the run's error list, and [] is returned
\* unless the handler itself throws
queryMetadata(q, c, d, outputCsv) ==
    LET kind == IF RedirectOk(c, d, outputCsv) THEN q.kind ELSE "failed"
    IN  IF kind = "rows"
        THEN [threw |-> FALSE, rows |-> q.rows]
        ELSE [threw |-> handleQueryError(kind, << >>).threw, rows |-> << >>]

-----------------------------------------------------------------------------
(* Phase: Health Score. *)

MeetsStandard == "MEETS_STANDARD"
RiskTypes == { MeetsStandard, "HIGH_RISK" }
HealthRiskRow(r) == [RiskType |-> CsvWord(r)]
HealthScoreRow == [Score |-> CsvNumber(81)]

\* the answers of the two health queries the pipeline draws from: the score
\* query returns one row or none, the risk query one compliant and one risky row
HealthScoreSamples == { << >>, << HealthScoreRow >> }
HealthRiskSamples == { << HealthRiskRow(MeetsStandard), HealthRiskRow("HIGH_RISK") >> }

CountOf(rows, Keep(_)) == Len(SelectSeq(rows, Keep))

\* mutant of IsRisk: the filter keeps the rows that meet the standard
IsRisk_Inverted(row) == StrictEquals(row.RiskType, JSStr(MeetsStandard))

\* line 432: risk.RiskType !== 'MEETS_STANDARD'
IsRisk(row) == ~StrictEquals(row.RiskType, JSStr(MeetsStandard))

\* getHealthCheckScore(path, orgAlias): the two queries write to HCS.csv and
\* HCR.csv under path, except that without orgAlias the risk query is
\* redirected to HCS.csv; each file is read back after its command
getHealthCheckScore(path, orgAlias, c, d, f, scoreCmd, riskCmd, hcScore, hcRisks) ==
    LET commandHCSPath == PathAppend(path, << "HCS.csv" >>)
        commandHCRPath == PathAppend(path, << "HCR.csv" >>)
        riskTarget == IF orgAlias THEN commandHCRPath ELSE commandHCSPath
        f1 == Redirected(c, d, f, commandHCSPath)
        f2 == Redirected(c, d, f1, riskTarget)
        hcRisksFiltered == SelectSeq(hcRisks, IsRisk)
    IN  IF ~RedirectOk(c, d, commandHCSPath) \/ scoreCmd = "fail"
        THEN [threw |-> TRUE, files |-> f1, value |-> Absent]
        ELSE IF ~RedirectOk(c, d, riskTarget) \/ riskCmd = "fail"
        THEN [threw |-> TRUE, files |-> f2, value |-> Absent]
        ELSE IF Resolve(c, commandHCRPath) \notin f2
        THEN [threw |-> TRUE, files |-> f2, value |-> Absent]
        ELSE IF Len(hcScore) = 0
        THEN [threw |-> TRUE, files |-> f2, value |-> Absent]
        ELSE [threw |-> FALSE, files |-> f2,
              value |-> [ Score |-> hcScore[1].Score,
                          Criteria |-> Len(hcRisks),
                          Compliant |-> Len(hcRisks) - Len(hcRisksFiltered),
                          Risks |-> Len(hcRisksFiltered),
                          Details |-> hcRisks ]]

-----------------------------------------------------------------------------
(* Phase: Resource Limits. *)

\* one entry of the limits endpoint's JSON object: numbers, or a field missing
LimitInfos ==
    { [Max |-> JSNum(100), Remaining |-> JSNum(40)],
      [Max |-> JSNum(100), Remaining |-> JSNum(0)],
      [Max |-> JSNum(100), Remaining |-> JSUndefined] }

\* the response the pipeline draws from: one entry of each kind
LimitSamples ==
    { << [Max |-> JSNum(100), Remaining |-> JSNum(40)],
         [Max |-> JSNum(100), Remaining |-> JSNum(0)],
         [Max |-> JSNum(100), Remaining |-> JSUndefined] >> }

HttpOutcomes == { "ok", "fail" }

\* mutant of LimitComplete: only Max is looked at
LimitComplete_MaxOnly(limitInfo) == limitInfo.Max # JSUndefined

\* line 292: limitInfo.Max !== undefined && limitInfo.Remaining !== undefined
LimitComplete(limitInfo) ==
    limitInfo.Max # JSUndefined /\ limitInfo.Remaining # JSUndefined

RECURSIVE RetainLimits(_, _)
\* the for-in loop of checkLimits from entry i on
RetainLimits(limitsData, i) ==
    IF i > Len(limitsData) THEN << >>
    ELSE LET limitInfo == limitsData[i]
         IN  IF LimitComplete(limitInfo)
             THEN << [ Name |-> i, Max |-> limitInfo.Max,
                       Remaining |-> limitInfo.Remaining,
                       Usage |-> Minus(limitInfo.Max, limitInfo.Remaining) ] >>
                  \o RetainLimits(limitsData, i + 1)
             ELSE RetainLimits(limitsData, i + 1)

\* checkLimits: a failed GET is logged inside checkLimits and the empty list
\* is returned; nothing is thrown to summarizeOrg
checkLimits(http, limitsData) ==
    IF http = "fail" THEN << >> ELSE RetainLimits(limitsData, 1)

\* mutant of LimitReached: a limit counts as reached when nothing of it is used
LimitReached_Unused(limit) == StrictEquals(limit.Remaining, limit.Max)

\* line 74: limit.Remaining === 0
LimitReached(limit) == StrictEquals(limit.Remaining, JSNum(0))

\* lines 72-80 of summarizeOrg
LimitsFragment(limits) ==
    LET Applicable == Len(limits)
        Reached == CountOf(limits, LimitReached)
    IN  [ Applicable |-> Applicable, Reached |-> Reached,
          Unattained |-> Applicable - Reached, Details |-> limits ]

-----------------------------------------------------------------------------
(* Phase: Static Risk Analysis. *)

\* readCsvFile: the content is split at "\n", the first piece is the header,
\* and every other piece, an empty last one included, becomes a result
readCsvFile(pieces) == pieces - 1

\* the step of the phase that throws, if any
CodeFailures == { "none", "create", "retrieve", "scanner", "lines" }

\* what the scanner and the line count found, as the pipeline draws it: the
\* pieces of CLIScannerResults.csv and the totals calculateCodeLines returns
CodeSamples ==
    { [pieces |-> 1, codeLines |-> [Apex |-> [Total |-> 0], JavaScript |-> [Total |-> 0]]],
      [pieces |-> 3, codeLines |-> [Apex |-> [Total |-> 10], JavaScript |-> [Total |-> 5]]] }

\* lines 88-98 of summarizeOrg, the body of the try block: the working
\* directory moves into the run directory and the project, and moves back by
\* four ".." only when no step threw
codeAnalysis(path, c, d, f, failAt, pieces, codeLines) ==
    LET runDir == Resolve(c, path)
        project == runDir \o << TempProject >>
        d2 == d \cup { project }
        f2 == f \cup { project \o << "CLIScannerResults.csv" >> }
        results == readCsvFile(pieces)
        LinesOfCode == codeLines.Apex.Total + codeLines.JavaScript.Total
    IN  IF runDir \notin d
        THEN [threw |-> TRUE, cwd |-> c, dirs |-> d, files |-> f, value |-> Absent]
        ELSE IF failAt = "create"
        THEN [threw |-> TRUE, cwd |-> runDir, dirs |-> d, files |-> f, value |-> Absent]
        ELSE IF failAt = "retrieve"
        THEN [threw |-> TRUE, cwd |-> project, dirs |-> d2, files |-> f, value |-> Absent]
        ELSE IF failAt \in { "scanner", "lines" }
        THEN [threw |-> TRUE, cwd |-> project, dirs |-> d2, files |-> f2, value |-> Absent]
        ELSE [threw |-> FALSE, cwd |-> Up(project, 4), dirs |-> d2, files |-> f2,
              value |-> [ Risks |-> results,
                          LinesOfCode |-> LinesOfCode,
                          RisksPerLineRatio |-> Divide(results, LinesOfCode),
                          LineDetails |-> codeLines ]]

-----------------------------------------------------------------------------
(* Phase: Test Execution. *)

JobStatuses == { "Queued", "Processing", "Completed", "Failed", "Aborted" }

\* mutant of Polling: the loop goes on only while the job is Queued
Polling_QueuedOnly(st) == st = JSStr("Queued")

\* line 501: the condition of the while loop
Polling(st) == st = JSStr("Queued") \/ st = JSStr("Processing")

\* the answers of the job-status query: a failure, no row, or one row
JobStatusAnswers ==
    { [kind |-> k, rows |-> << >>] : k \in { "rows", "failed", "nostderr" } }
    \cup { [kind |-> "rows", rows |-> << [Status |-> CsvWord(st)] >>] : st \in JobStatuses }

\* one iteration of the while loop of pollTestRunResult: the new status
pollTick(st, q, c, d, path) ==
    LET result == queryMetadata(q, c, d, PathAppend(path, << "testRunResult.json" >>))
    IN  IF result.threw THEN JSStr("Failed")
        ELSE IF Len(result.rows) > 0 THEN result.rows[1].Status
        ELSE st

\* the rows of ApexTestRunResult the model draws from
TestRunRows ==
    { [ Status |-> CsvWord(st), MethodsFailed |-> CsvNumber(mf),
        MethodsCompleted |-> CsvNumber(5), TestTime |-> CsvNumber(12) ]
      : st \in { "Completed", "Failed" }, mf \in { 0, 2 } }
    \ { [ Status |-> CsvWord("Failed"), MethodsFailed |-> CsvNumber(2),
          MethodsCompleted |-> CsvNumber(5), TestTime |-> CsvNumber(12) ] }

TestRunAnswers ==
    { [kind |-> k, rows |-> << >>] : k \in QueryKinds }
    \cup { [kind |-> "rows", rows |-> << r >>] : r \in TestRunRows }

\* line 538 of getTestRunDetails
TestOutcome(testRunResult) ==
    IF StrictEquals(testRunResult.Status, JSStr("Completed"))
       /\ StrictEquals(testRunResult.MethodsFailed, JSNum(0))
    THEN "Pass" ELSE "Fail"

\* getTestRunDetails: null when the query throws or returns no row
getTestRunDetails(q, c, d, path) ==
    LET results == queryMetadata(q, c, d, PathAppend(path, << "testRunDetails.json" >>))
    IN  IF results.threw \/ Len(results.rows) = 0 THEN JSNull
        ELSE LET testRunResult == results.rows[1]
             IN  [ t |-> "object",
                   outcome |-> JSStr(TestOutcome(testRunResult)),
                   runtime |-> testRunResult.TestTime,
                   methodsCompleted |-> testRunResult.MethodsCompleted,
                   methodsFailed |-> testRunResult.MethodsFailed ]

\* testResult?.field ?? fallback
FieldOr(testResult, field, fallback) ==
    IF testResult.t = "null" THEN fallback ELSE Nullish(testResult[field], fallback)

RECURSIVE SumPercentCovered(_, _, _)
\* results.reduce((sum, result) => sum + result.PercentCovered, 0) from row i on
SumPercentCovered(rows, i, sum) ==
    IF i > Len(rows) THEN sum
    ELSE SumPercentCovered(rows, i + 1, JSAdd(sum, rows[i].PercentCovered))

\* getOrgWideApexCoverage: the reduced sum divided by the number of rows
getOrgWideApexCoverage(q, c, d, path) ==
    LET results == queryMetadata(q, c, d, PathAppend(path, << "orgWideApexCoverage.json" >>))
    IN  IF results.threw THEN JSNull
        ELSE Divide(ToNumber(SumPercentCovered(results.rows, 1, JSNum(0))),
                    Len(results.rows))

\* calculateCoveragePercentage(linesCovered, linesUncovered)
calculateCoveragePercentage(linesCovered, linesUncovered) ==
    LET totalLines == JSAdd(linesCovered, linesUncovered)
    IN  IF ToNumber(totalLines) > 0
        THEN Divide(100 * ToNumber(linesCovered), ToNumber(totalLines))
        ELSE JSNum(0)

\* getApexClassCoverageDetails: [] when the query throws
getApexClassCoverageDetails(q, c, d, path) ==
    LET results == queryMetadata(q, c, d, PathAppend(path, << "apexClassCoverageDetails.json" >>))
    IN  IF results.threw THEN << >>
        ELSE [ i \in 1..Len(results.rows) |->
                 [ Name |-> results.rows[i].Name,
                   CoveragePercentage |->
                       calculateCoveragePercentage(results.rows[i].NumLinesCovered,
                                                   results.rows[i].NumLinesUncovered) ] ]

\* mutant of getFlowCoveragePercentage: the last record instead of the first
getFlowCoveragePercentage_LastRecord(coverageResult) ==
    IF coverageResult.ok /\ Len(coverageResult.records) > 0
    THEN LET lastRecord == coverageResult.records[Len(coverageResult.records)]
             totalElements == lastRecord.NumElementsCovered + lastRecord.NumElementsNotCovered
         IN  IF totalElements > 0
             THEN Divide(100 * lastRecord.NumElementsCovered, totalElements)
             ELSE JSNum(0)
    ELSE JSNum(0)

\* getFlowCoveragePercentage: from records[0] alone; 0 when the command
\* fails or returns no record
getFlowCoveragePercentage(coverageResult) ==
    IF coverageResult.ok /\ Len(coverageResult.records) > 0
    THEN LET firstRecord == coverageResult.records[1]
             totalElements == firstRecord.NumElementsCovered + firstRecord.NumElementsNotCovered
         IN  IF totalElements > 0
             THEN Divide(100 * firstRecord.NumElementsCovered, totalElements)
             ELSE JSNum(0)
    ELSE JSNum(0)

RECURSIVE FindCoverage(_, _, _)
\* coverageRecords.find(coverage => coverage.FlowVersionId === id): the index, 0 if none
FindCoverage(coverageRecords, id, i) ==
    IF i > Len(coverageRecords) THEN 0
    ELSE IF coverageRecords[i].FlowVersionId = id THEN i
    ELSE FindCoverage(coverageRecords, id, i + 1)

\* getFlowCoverageDetails: per active flow, the matching record's own
\* percentage with no guard on an empty record, 0 when none matches
getFlowCoverageDetails(coverageResult, flowDefinitionsResult) ==
    IF coverageResult.ok /\ flowDefinitionsResult.ok /\ Len(flowDefinitionsResult.records) > 0
    THEN [ i \in 1..Len(flowDefinitionsResult.records) |->
             LET flowDef == flowDefinitionsResult.records[i]
                 m == FindCoverage(coverageResult.records, flowDef.ActiveVersionId, 1)
             IN  [ Name |-> flowDef.Label,
                   CoveragePercentage |->
                       IF m = 0 THEN JSNum(0)
                       ELSE Divide(100 * coverageResult.records[m].NumElementsCovered,
                                   coverageResult.records[m].NumElementsCovered
                                   + coverageResult.records[m].NumElementsNotCovered) ] ]
    ELSE << >>

\* lines 116-130 of summarizeOrg
TestsFragment(testResult, orgWideApexCoverage, apexDetails, orgWideFlowCoverage, flowCoverageDetails) ==
    [ ApexUnitTests |-> FieldOr(testResult, "methodsCompleted", JSNum(0)),
      TestDuration |-> FieldOr(testResult, "runtime", JSNum(0)),
      TestMethodsCompleted |-> FieldOr(testResult, "methodsCompleted", JSNum(0)),
      TestMethodsFailed |-> FieldOr(testResult, "methodsFailed", JSNum(0)),
      TestOutcome |-> FieldOr(testResult, "outcome", JSStr("N/A")),
      ApexCoverageDetails |-> [ Total |-> Nullish(orgWideApexCoverage, JSNum(0)),
                                Details |-> apexDetails ],
      FlowCoverageDetails |-> [ Total |-> Nullish(orgWideFlowCoverage, JSNum(0)),
                                Details |-> flowCoverageDetails ] ]

-----------------------------------------------------------------------------
(* Phase: Component Inventory. *)

\* LastModifiedDate values, most recent first (ORDER BY LastModifiedDate DESC)
ModifiedDates ==
    << "2024-01-03", "2024-01-02", "2024-01-01", "2023-12-31", "2023-12-30" >>

InventoryRows(n) == [ i \in 1..n |-> [LastModifiedDate |-> CsvWord(ModifiedDates[i])] ]

InventoryAnswers ==
    { [kind |-> k, rows |-> << >>] : k \in QueryKinds }
    \cup { [kind |-> "rows", rows |-> InventoryRows(n)] : n \in 1..MaxRows }

DataPointCsv(path, dataPoint) == PathAppend(path, << dataPoint >>)

RECURSIVE queryDataPoints(_, _, _, _, _, _, _)
\* queryDataPoints from data point i on: one queryMetadata per data point,
\* stopping at the first that throws
queryDataPoints(sel, answers, i, c, d, f, path) ==
    IF i > Len(sel)
    THEN [threw |-> FALSE, files |-> f, queryResults |-> << >>]
    ELSE LET outputCsv == DataPointCsv(path, sel[i])
             result == queryMetadata(answers[i], c, d, outputCsv)
             f1 == Redirected(c, d, f, outputCsv)
         IN  IF result.threw
             THEN [threw |-> TRUE, files |-> f1, queryResults |-> << >>]
             ELSE LET rest == queryDataPoints(sel, answers, i + 1, c, d, f1, path)
                  IN  [ threw |-> rest.threw, files |-> rest.files,
                        queryResults |-> << result.rows >> \o rest.queryResults ]

\* errors.some(error => error && error.dataPoint === dataPoint)
HasDataPointError(errs, dataPoint) ==
    \E i \in 1..Len(errs) :
        "dataPoint" \in DOMAIN errs[i] /\ errs[i].dataPoint = dataPoint

\* mutant of calculateComponentSummary: the date is taken from the last row
calculateComponentSummary_LastRow(sel, queryResults, errs) ==
    LET kept == { i \in 1..Len(sel) :
                    ~HasDataPointError(errs, sel[i]) /\ Len(queryResults[i]) > 0 }
    IN  [ dataPoint \in { sel[i] : i \in kept } |->
            LET i == CHOOSE j \in kept : sel[j] = dataPoint
            IN  [ Total |-> Len(queryResults[i]),
                  LastModifiedDate |->
                      queryResults[i][Len(queryResults[i])].LastModifiedDate ] ]

\* calculateComponentSummary: an entry per data point that has rows and no
\* recorded data-point error, keyed by the data point
calculateComponentSummary(sel, queryResults, errs) ==
    LET kept == { i \in 1..Len(sel) :
                    ~HasDataPointError(errs, sel[i]) /\ Len(queryResults[i]) > 0 }
    IN  [ dataPoint \in { sel[i] : i \in kept } |->
            LET i == CHOOSE j \in kept : sel[j] = dataPoint
            IN  [ Total |-> Len(queryResults[i]),
                  LastModifiedDate |-> queryResults[i][1].LastModifiedDate ] ]

-----------------------------------------------------------------------------
(* finish. *)

Under(loc, dir) == Len(loc) > Len(dir) /\ SubSeq(loc, 1, Len(dir)) = dir

\* mutant of FinalResultState: a single error is tolerated
FinalResultState_OffByOne(errs) == IF Len(errs) > 1 THEN "Failure" ELSE "Completed"

\* mutant of FinalResultState: a run without errors is left 'Pending'
FinalResultState_LeftPending(errs) == IF Len(errs) > 0 THEN "Failure" ELSE "Pending"

\* line 147 of summarizeOrg
FinalResultState(errs) == IF Len(errs) > 0 THEN "Failure" ELSE "Completed"

\* finish(orgSummaryDirectory, summarizedOrg, keepData, outputDirectory):
\* the clean-up lists the run directory and the save writes into it, both
\* through the path string, so both throw when it no longer names the run
\* directory from the current working directory
finish(path, summarizedOrg, keepData, outputGiven, c, d, f, written) ==
    LET runDir == Resolve(c, path)
        d1 == IF keepData THEN d ELSE { x \in d : ~Under(x, runDir) }
        f1 == IF keepData THEN f ELSE { x \in f : ~Under(x, runDir) }
    IN  IF runDir \notin d /\ (~keepData \/ outputGiven)
        THEN [threw |-> TRUE, dirs |-> d, files |-> f, saved |-> written]
        ELSE IF outputGiven
        THEN [threw |-> FALSE, dirs |-> d1,
              files |-> f1 \cup { runDir \o << "orgsummary.json" >> },
              saved |-> summarizedOrg]
        ELSE [threw |-> FALSE, dirs |-> d1, files |-> f1, saved |-> written]

-----------------------------------------------------------------------------
(* summarizeOrg. *)

EmptyOrgInfo == [username |-> "", accessToken |-> "", instanceUrl |-> "", orgId |-> ""]
SomeOrgInfo ==
    [username |-> "admin@org", accessToken |-> "token",
     instanceUrl |-> "https://org.example", orgId |-> "00D000000000001"]

\* getOrgInfo: the error of a failed org:display is logged and the empty
\* record is returned
getOrgInfo(display) == IF display = "ok" THEN SomeOrgInfo ELSE EmptyOrgInfo

\* buildBaseSummary, with the optional fragments not yet assigned
buildBaseSummary(i) ==
    [ Timestamp |-> Timestamp, ResultState |-> "Pending",
      OrgId |-> i.orgId, Username |-> i.username, OrgInstanceURL |-> i.instanceUrl,
      HealthCheck |-> Absent, Limits |-> Absent, Code |-> Absent,
      Tests |-> Absent, Metadata |-> Absent ]

\* lines 51-56 of summarizeOrg
RunDirectory(f, i, ts) ==
    IF ~f.outputdirectory.given
    THEN PathAppend([given |-> TRUE, abs |-> TRUE, parts |-> DirName], << i.orgId, ts >>)
    ELSE PathAppend(f.outputdirectory, << i.orgId, ts >>)

\* the order of the five blocks of summarizeOrg, then its tail
PhaseAfter(p) ==
    CASE p = "health" -> "limits"
      [] p = "limits" -> "code"
      [] p = "code" -> "tests"
      [] p = "tests" -> "inventory"
      [] p = "inventory" -> "finish"

NoTick == [kind |-> "none"]
Err(key) == [key |-> key]
NoCall == [fn |-> "none"]

Init ==
    /\ pc = "call"
    /\ flags \in Flags
    /\ info = EmptyOrgInfo
    /\ infoFailed = FALSE
    /\ baseSummary = Absent
    /\ errors = << >>
    /\ orgSummaryDirectory = Absent
    /\ cwd = Cwd0
    /\ dirs = Prefixes(Cwd0) \cup Prefixes(DirName)
    /\ files = { }
    /\ status = Absent
    /\ lastTick = NoTick
    /\ pollResult = Absent
    /\ started = << >>
    /\ finished = << >>
    /\ testRunId = Absent
    /\ testRunRow = Absent
    /\ callFailed = { }
    /\ summary = Absent
    /\ saved = Absent
    /\ call = NoCall

\* lines 43-60: org info, base summary, run directory
Begin ==
    /\ pc = "call"
    /\ \E display \in CommandOutcomes :
         LET i == getOrgInfo(display)
             path == RunDirectory(flags, i, Timestamp)
         IN  /\ info' = i
             /\ infoFailed' = (display = "fail")
             /\ baseSummary' = buildBaseSummary(i)
             /\ orgSummaryDirectory' = path
             /\ dirs' = dirs \cup Prefixes(Resolve(cwd, path))
    /\ errors' = << >>
    /\ pc' = "health"
    /\ UNCHANGED << call, flags, cwd, files, status, lastTick, pollResult, started,
                    finished, testRunId, testRunRow, callFailed, summary, saved >>

\* lines 62-68
HealthPhase ==
    /\ pc = "health"
    /\ pc' = PhaseAfter("health")
    /\ IF flags.healthcheck
       THEN \E scoreCmd \in CommandOutcomes, riskCmd \in CommandOutcomes,
               hcScore \in HealthScoreSamples, hcRisks \in HealthRiskSamples :
              LET r == getHealthCheckScore(orgSummaryDirectory, flags.targetusername,
                                           cwd, dirs, files, scoreCmd, riskCmd,
                                           hcScore, hcRisks)
              IN  /\ files' = r.files
                  /\ IF r.threw
                     THEN /\ errors' = Append(errors, Err("getHealthCheckScoreError"))
                          /\ UNCHANGED baseSummary
                     ELSE /\ baseSummary' = [baseSummary EXCEPT !.HealthCheck = r.value]
                          /\ UNCHANGED errors
                  /\ callFailed' =
                       IF scoreCmd = "fail" \/ riskCmd = "fail"
                       THEN { "Health" } ELSE { }
                  /\ started' = Append(started, "Health")
                  /\ finished' = Append(finished, "Health")
       ELSE UNCHANGED << files, errors, baseSummary, callFailed, started, finished >>
    /\ UNCHANGED << call, flags, info, infoFailed, orgSummaryDirectory, cwd, dirs, status,
                    lastTick, pollResult, testRunId, testRunRow, summary, saved >>

\* lines 70-84
LimitsPhase ==
    /\ pc = "limits"
    /\ pc' = PhaseAfter("limits")
    /\ IF flags.limits
       THEN \E http \in HttpOutcomes, limitsData \in LimitSamples :
              /\ baseSummary' =
                   [baseSummary EXCEPT !.Limits = LimitsFragment(checkLimits(http, limitsData))]
              /\ callFailed' =
                   IF http = "fail" THEN { "Limits" } ELSE { }
              /\ started' = Append(started, "Limits")
              /\ finished' = Append(finished, "Limits")
       ELSE UNCHANGED << baseSummary, callFailed, started, finished >>
    /\ UNCHANGED << call, flags, info, infoFailed, errors, orgSummaryDirectory, cwd, dirs,
                    files, status, lastTick, pollResult, testRunId, testRunRow,
                    summary, saved >>

\* lines 86-102
CodePhase ==
    /\ pc = "code"
    /\ pc' = PhaseAfter("code")
    /\ IF flags.codeanalysis
       THEN \E failAt \in CodeFailures, found \in CodeSamples :
              LET r == codeAnalysis(orgSummaryDirectory, cwd, dirs, files,
                                    failAt, found.pieces, found.codeLines)
              IN  /\ cwd' = r.cwd
                  /\ dirs' = r.dirs
                  /\ files' = r.files
                  /\ IF r.threw
                     THEN /\ errors' = Append(errors, Err("calculateLinesOfCodeError"))
                          /\ UNCHANGED baseSummary
                     ELSE /\ baseSummary' = [baseSummary EXCEPT !.Code = r.value]
                          /\ UNCHANGED errors
                  /\ callFailed' =
                       IF failAt \in { "create", "retrieve", "scanner" }
                       THEN { "Code" } ELSE { }
                  /\ started' = Append(started, "Code")
                  /\ finished' = Append(finished, "Code")
       ELSE UNCHANGED << cwd, dirs, files, errors, baseSummary, callFailed,
                         started, finished >>
    /\ UNCHANGED << call, flags, info, infoFailed, orgSummaryDirectory, status, lastTick,
                    pollResult, testRunId, testRunRow, summary, saved >>

\* the environment's answers to the coverage queries of the Tests phase
PercentRows == { [PercentCovered |-> CsvNumber(85)] }
ClassCoverageRows ==
    { [Name |-> CsvWord("Foo"), NumLinesCovered |-> CsvNumber(3),
       NumLinesUncovered |-> CsvNumber(1)] }
FlowCoverageRecords ==
    { [FlowVersionId |-> "301A", NumElementsCovered |-> 3, NumElementsNotCovered |-> 1] }
FlowDefinitionRecords == { [ActiveVersionId |-> "301A", Label |-> "FlowA"] }

CoverageAnswers ==
    { [ orgWide |-> [kind |-> "rows", rows |-> p],
        classes |-> [kind |-> "rows", rows |-> k],
        flowCoverage |-> [ok |-> TRUE, records |-> fc],
        flowDefinitions |-> [ok |-> TRUE, records |-> fd] ]
      : p \in [1..1 -> PercentRows], k \in [1..1 -> ClassCoverageRows],
        fc \in [1..1 -> FlowCoverageRecords], fd \in [1..1 -> FlowDefinitionRecords] }

\* extractTestRunId: the 15 characters after "-i" in the submission output,
\* null when the output holds none or cannot be read
extractTestRunId(idFound) == IF idFound THEN JSStr("707000000000001") ELSE JSNull

\* mutant of HasRunId: the block goes on whatever was extracted
HasRunId_Unchecked(id) == TRUE

\* line 109: if (testRunId)
HasRunId(id) == id # JSNull

\* lines 104-109: submit the test run and extract its identifier
TestsSubmit ==
    /\ pc = "tests"
    /\ IF flags.tests
       THEN \E submit \in CommandOutcomes, idFound \in BOOLEAN :
              LET testResults == PathAppend(orgSummaryDirectory, << "testResults.json" >>)
                  ok == RedirectOk(cwd, dirs, testResults) /\ submit = "ok"
                  id == extractTestRunId(idFound)
              IN  /\ files' = Redirected(cwd, dirs, files, testResults)
                  /\ started' = Append(started, "Tests")
                  /\ IF ~ok
                     THEN /\ errors' = Append(errors, Err("runApexTestsError"))
                          /\ callFailed' = { "TestsSubmit" }
                          /\ finished' = Append(finished, "Tests")
                          /\ pc' = PhaseAfter("tests")
                          /\ UNCHANGED << testRunId, status >>
                     ELSE IF ~HasRunId(id)
                     THEN /\ testRunId' = id
                          /\ callFailed' = { }
                          /\ finished' = Append(finished, "Tests")
                          /\ pc' = PhaseAfter("tests")
                          /\ UNCHANGED << errors, status >>
                     ELSE /\ testRunId' = id
                          /\ callFailed' = { }
                          /\ status' = JSStr("Queued")
                          /\ pc' = "poll"
                          /\ UNCHANGED << errors, finished >>
       ELSE /\ pc' = PhaseAfter("tests")
            /\ UNCHANGED << files, started, errors, callFailed, finished, testRunId, status >>
    /\ UNCHANGED << call, flags, info, infoFailed, baseSummary, orgSummaryDirectory, cwd, dirs,
                    lastTick, pollResult, testRunRow, summary, saved >>

\* lines 501-518: one iteration of the loop of pollTestRunResult
PollTick ==
    /\ pc = "poll"
    /\ Polling(status)
    /\ \E q \in JobStatusAnswers :
         LET outputCsv == PathAppend(orgSummaryDirectory, << "testRunResult.json" >>)
             kind == IF RedirectOk(cwd, dirs, outputCsv) THEN q.kind ELSE "failed"
             after == pollTick(status, q, cwd, dirs, orgSummaryDirectory)
         IN  /\ status' = after
             /\ lastTick' = [kind |-> kind, rows |-> Len(q.rows)]
             /\ files' = Redirected(cwd, dirs, files, outputCsv)
             /\ callFailed' =
                  IF kind # "rows" THEN callFailed \cup { "TestsPoll" } ELSE callFailed
    /\ UNCHANGED << call, pc, flags, info, infoFailed, baseSummary, errors, orgSummaryDirectory,
                    cwd, dirs, pollResult, started, finished, testRunId, testRunRow,
                    summary, saved >>

\* lines 501 and 519: the loop condition fails and pollTestRunResult returns
PollReturn ==
    /\ pc = "poll"
    /\ ~Polling(status)
    /\ pollResult' = status
    /\ pc' = "collect"
    /\ UNCHANGED << call, flags, info, infoFailed, baseSummary, errors, orgSummaryDirectory,
                    cwd, dirs, files, status, lastTick, started, finished, testRunId,
                    testRunRow, callFailed, summary, saved >>

\* lines 112-130: the details and coverage queries, and the Tests fragment
TestsCollect ==
    /\ pc = "collect"
    /\ \E q \in TestRunAnswers, cov \in CoverageAnswers :
         LET path == orgSummaryDirectory
             reachable == RedirectOk(cwd, dirs, PathAppend(path, << "testRunDetails.json" >>))
             testResult == getTestRunDetails(q, cwd, dirs, path)
             orgWideApexCoverage == getOrgWideApexCoverage(cov.orgWide, cwd, dirs, path)
             orgWideFlowCoverage == getFlowCoveragePercentage(cov.flowCoverage)
             flowCoverageDetails ==
                 getFlowCoverageDetails(cov.flowCoverage, cov.flowDefinitions)
             apexDetails == getApexClassCoverageDetails(cov.classes, cwd, dirs, path)
         IN  /\ baseSummary' =
                  [baseSummary EXCEPT !.Tests =
                     TestsFragment(testResult, orgWideApexCoverage, apexDetails,
                                   orgWideFlowCoverage, flowCoverageDetails)]
             /\ testRunRow' =
                  IF reachable /\ q.kind = "rows" /\ Len(q.rows) > 0
                  THEN q.rows[1] ELSE Absent
             /\ files' = IF reachable
                         THEN files \cup { Resolve(cwd, PathAppend(path, << n >>)) :
                                n \in { "testRunDetails.json", "orgWideApexCoverage.json",
                                        "apexClassCoverageDetails.json" } }
                         ELSE files
             /\ callFailed' =
                  IF ~reachable \/ q.kind # "rows" \/ cov.orgWide.kind # "rows"
                     \/ cov.classes.kind # "rows" \/ ~cov.flowCoverage.ok
                     \/ ~cov.flowDefinitions.ok
                  THEN callFailed \cup { "TestsCollect" } ELSE callFailed
    /\ finished' = Append(finished, "Tests")
    /\ pc' = PhaseAfter("tests")
    /\ status' = Absent
    /\ lastTick' = NoTick
    /\ pollResult' = Absent
    /\ UNCHANGED << call, flags, info, infoFailed, errors, orgSummaryDirectory, cwd, dirs,
                    started, testRunId, summary, saved >>

\* lines 137-145
InventoryPhase ==
    /\ pc = "inventory"
    /\ pc' = PhaseAfter("inventory")
    /\ LET sel == selectedDataPoints(flags)
       IN  IF Len(sel) > 0
           THEN \E answers \in [1..Len(sel) -> InventoryAnswers] :
                  LET r == queryDataPoints(sel, answers, 1, cwd, dirs, files,
                                           orgSummaryDirectory)
                  IN  /\ files' = r.files
                      /\ IF r.threw
                         THEN /\ errors' = Append(errors, Err("componentSummaryError"))
                              /\ UNCHANGED baseSummary
                         ELSE /\ baseSummary' =
                                   [baseSummary EXCEPT !.Metadata =
                                      calculateComponentSummary(sel, r.queryResults, errors)]
                              /\ UNCHANGED errors
                      /\ callFailed' =
                           IF \/ \E i \in 1..Len(sel) : answers[i].kind # "rows"
                              \/ ~RedirectOk(cwd, dirs, DataPointCsv(orgSummaryDirectory, sel[1]))
                           THEN { "Inventory" } ELSE { }
                      /\ started' = Append(started, "Inventory")
                      /\ finished' = Append(finished, "Inventory")
           ELSE UNCHANGED << files, errors, baseSummary, callFailed, started, finished >>
    /\ testRunRow' = Absent
    /\ UNCHANGED << call, flags, info, infoFailed, orgSummaryDirectory, cwd, dirs, status,
                    lastTick, pollResult, testRunId, summary, saved >>

\* the report handed back after finish: index.ts returns the copy as it was
\* written (line 152); the other copy of summarizeOrg in the repository
\* (unnamed/part_000, lines 193-196) first adds OutputPath when an output
\* directory was given
ReturnedSummary(written, outputdirectory, addsOutputPath) ==
    IF addsOutputPath /\ outputdirectory.given
    THEN [OutputPath |-> outputdirectory] @@ written
    ELSE written

\* lines 147-152: the outcome state, the copy, finish and the return
Finish ==
    /\ pc = "finish"
    /\ baseSummary' = [baseSummary EXCEPT !.ResultState = FinalResultState(errors)]
    /\ LET r == finish(orgSummaryDirectory, baseSummary', flags.keepdata,
                       flags.outputdirectory.given, cwd, dirs, files, saved)
       IN  /\ dirs' = r.dirs
           /\ files' = r.files
           /\ saved' = r.saved
           /\ IF r.threw
              THEN pc' = "threw" /\ UNCHANGED summary
              ELSE /\ pc' = "returned"
                   /\ \E addsOutputPath \in BOOLEAN :
                        summary' = ReturnedSummary(baseSummary', flags.outputdirectory,
                                                   addsOutputPath)
    /\ UNCHANGED << call, flags, info, infoFailed, errors, orgSummaryDirectory, cwd, status,
                    lastTick, pollResult, started, finished, testRunId, testRunRow,
                    callFailed >>

Next ==
    \/ Begin
    \/ HealthPhase
    \/ LimitsPhase
    \/ CodePhase
    \/ TestsSubmit
    \/ PollTick
    \/ PollReturn
    \/ TestsCollect
    \/ InventoryPhase
    \/ Finish

Spec == Init /\ [][Next]_vars

\* A run of the poller alone: the Tests phase only, the other flags fixed.
PollFlags ==
    { f \in Flags :
        /\ f.tests /\ ~f.healthcheck /\ ~f.limits /\ ~f.codeanalysis
        /\ f.metadata = MetadataEmpty /\ f.targetusername }

PollInit == Init /\ flags \in PollFlags

\* The single thread of control keeps running: a step that can be taken is
\* taken (the 5 s timer of the poll loop always fires).
FairPollSpec == PollInit /\ [][Next]_vars /\ WF_vars(Next)

-----------------------------------------------------------------------------
(* The functions of the phases, each called once on its own with answers   *)
(* drawn from larger sets than the pipeline draws from.                     *)

\* the flags of the run the functions are called in
FunctionFlags ==
    [ healthcheck |-> TRUE, limits |-> TRUE, codeanalysis |-> TRUE, tests |-> TRUE,
      metadata |-> MetadataList, outputdirectory |-> NoOutputDirectory,
      keepdata |-> TRUE, targetusername |-> TRUE ]

\* the state after lines 43-60 of a run whose org is resolved
FunctionInit ==
    /\ pc = "function"
    /\ flags = FunctionFlags
    /\ info = SomeOrgInfo
    /\ infoFailed = FALSE
    /\ baseSummary = buildBaseSummary(SomeOrgInfo)
    /\ errors = << >>
    /\ orgSummaryDirectory = RunDirectory(FunctionFlags, SomeOrgInfo, Timestamp)
    /\ cwd = Cwd0
    /\ dirs = Prefixes(Cwd0)
                \cup Prefixes(Resolve(Cwd0, RunDirectory(FunctionFlags, SomeOrgInfo, Timestamp)))
    /\ files = { }
    /\ status = Absent
    /\ lastTick = NoTick
    /\ pollResult = Absent
    /\ started = << >>
    /\ finished = << >>
    /\ testRunId = Absent
    /\ testRunRow = Absent
    /\ callFailed = { }
    /\ summary = Absent
    /\ saved = Absent
    /\ call = NoCall

\* rows of the ApexCodeCoverageAggregate query, as csv-parse returns them
CoverageRow(covered, uncovered) ==
    [ Name |-> CsvWord("Foo"), NumLinesCovered |-> CsvNumber(covered),
      NumLinesUncovered |-> CsvNumber(uncovered) ]

CoverageRowSet == { CoverageRow(c, u) : c \in 0..MaxLines, u \in 0..MaxLines }

\* line 124: getApexClassCoverageDetails on the rows the query returned
CallApexClassCoverageDetails ==
    /\ pc = "function"
    /\ \E rows \in SeqsUpTo(CoverageRowSet, MaxCoverageRows) :
         call' = [ fn |-> "getApexClassCoverageDetails", rows |-> rows,
                   value |-> getApexClassCoverageDetails([kind |-> "rows", rows |-> rows],
                                                         cwd, dirs, orgSummaryDirectory) ]
    /\ pc' = "called"
    /\ UNCHANGED << flags, info, infoFailed, baseSummary, errors,
                    orgSummaryDirectory, cwd, dirs, files, status, lastTick,
                    pollResult, started, finished, testRunId, testRunRow,
                    callFailed, summary, saved >>

\* the numbers a limit entry holds, and the entries drawn from them: Max and
\* Remaining with Remaining <= Max, or either of them missing
LimitValues == { 0, 40, 100 }
LimitEntries ==
    { [Max |-> JSNum(e[1]), Remaining |-> JSNum(e[2])] :
        e \in { v \in LimitValues \X LimitValues : v[2] <= v[1] } }
    \cup { [Max |-> JSNum(m), Remaining |-> JSUndefined] : m \in LimitValues }
    \cup { [Max |-> JSUndefined, Remaining |-> JSNum(r)] : r \in LimitValues }
    \cup { [Max |-> JSUndefined, Remaining |-> JSUndefined] }

\* lines 70-84: the Limits block on the response of the limits endpoint
CallCheckLimits ==
    /\ pc = "function"
    /\ \E http \in HttpOutcomes, limitsData \in SeqsUpTo(LimitEntries, MaxLimits) :
         /\ call' = [ fn |-> "checkLimits", http |-> http, limitsData |-> limitsData ]
         /\ baseSummary' =
              [baseSummary EXCEPT !.Limits = LimitsFragment(checkLimits(http, limitsData))]
    /\ pc' = "called"
    /\ UNCHANGED << flags, info, infoFailed, errors,
                    orgSummaryDirectory, cwd, dirs, files, status, lastTick,
                    pollResult, started, finished, testRunId, testRunRow,
                    callFailed, summary, saved >>

\* lines 62-68: the Health block on the answers of its two queries
CallGetHealthCheckScore ==
    /\ pc = "function"
    /\ \E orgAlias \in BOOLEAN, scoreCmd \in CommandOutcomes, riskCmd \in CommandOutcomes,
          hcScore \in HealthScoreSamples,
          hcRisks \in SeqsUpTo({ HealthRiskRow(r) : r \in RiskTypes }, MaxRisks) :
         LET r == getHealthCheckScore(orgSummaryDirectory, orgAlias, cwd, dirs, files,
                                      scoreCmd, riskCmd, hcScore, hcRisks)
         IN  /\ call' = [ fn |-> "getHealthCheckScore", orgAlias |-> orgAlias,
                           scoreCmd |-> scoreCmd, riskCmd |-> riskCmd,
                           hcScore |-> hcScore, hcRisks |-> hcRisks, threw |-> r.threw ]
             /\ files' = r.files
             /\ IF r.threw
                THEN /\ errors' = Append(errors, Err("getHealthCheckScoreError"))
                     /\ UNCHANGED baseSummary
                ELSE /\ baseSummary' = [baseSummary EXCEPT !.HealthCheck = r.value]
                     /\ UNCHANGED errors
    /\ pc' = "called"
    /\ UNCHANGED << flags, info, infoFailed, orgSummaryDirectory, cwd, dirs, status,
                    lastTick, pollResult, started, finished, testRunId, testRunRow,
                    callFailed, summary, saved >>

\* the answers of one data-point query, with up to MaxInventoryRows rows
InventoryCallAnswers ==
    { [kind |-> k, rows |-> << >>] : k \in QueryKinds }
    \cup { [kind |-> "rows", rows |-> InventoryRows(n)] : n \in 1..MaxInventoryRows }

\* lines 137-145: the Inventory block on the answers of its queries
CallQueryDataPoints ==
    /\ pc = "function"
    /\ LET sel == selectedDataPoints(flags)
       IN  \E answers \in [1..Len(sel) -> InventoryCallAnswers] :
              LET r == queryDataPoints(sel, answers, 1, cwd, dirs, files,
                                       orgSummaryDirectory)
              IN  /\ call' = [ fn |-> "queryDataPoints", sel |-> sel,
                                answers |-> answers, threw |-> r.threw ]
                  /\ files' = r.files
                  /\ IF r.threw
                     THEN /\ errors' = Append(errors, Err("componentSummaryError"))
                          /\ UNCHANGED baseSummary
                     ELSE /\ baseSummary' =
                               [baseSummary EXCEPT !.Metadata =
                                  calculateComponentSummary(sel, r.queryResults, errors)]
                          /\ UNCHANGED errors
    /\ pc' = "called"
    /\ UNCHANGED << flags, info, infoFailed, orgSummaryDirectory, cwd, dirs, status,
                    lastTick, pollResult, started, finished, testRunId, testRunRow,
                    callFailed, summary, saved >>

\* what GetFlowCoverage and GetFlowDefinitionViews answer: the parsed JSON of
\* the command, its records holding numbers, or a failed command
MaxFlowRows == 2
MaxFlowDefinitions == 2
MaxFlowElements == 2
FlowVersionIds == { "301A", "301B" }
FlowCoverageRecordSet ==
    { [FlowVersionId |-> v, NumElementsCovered |-> c, NumElementsNotCovered |-> u] :
        v \in FlowVersionIds, c \in 0..MaxFlowElements, u \in 0..MaxFlowElements }
FlowDefinitionRecordSet ==
    { [ActiveVersionId |-> v, Label |-> "Flow"] : v \in FlowVersionIds \cup { "301C" } }
FlowCoverageResults ==
    { [ok |-> FALSE, records |-> << >>] }
    \cup { [ok |-> TRUE, records |-> r] : r \in SeqsUpTo(FlowCoverageRecordSet, MaxFlowRows) }
FlowDefinitionsResults ==
    { [ok |-> FALSE, records |-> << >>] }
    \cup { [ok |-> TRUE, records |-> r] :
             r \in SeqsUpTo(FlowDefinitionRecordSet, MaxFlowDefinitions) }

\* line 128: getFlowCoverageDetails on the two answers
CallFlowCoverageDetails ==
    /\ pc = "function"
    /\ \E coverageResult \in FlowCoverageResults,
          flowDefinitionsResult \in FlowDefinitionsResults :
         call' = [ fn |-> "getFlowCoverageDetails",
                   coverageResult |-> coverageResult,
                   flowDefinitionsResult |-> flowDefinitionsResult,
                   value |-> getFlowCoverageDetails(coverageResult, flowDefinitionsResult) ]
    /\ pc' = "called"
    /\ UNCHANGED << flags, info, infoFailed, baseSummary, errors,
                    orgSummaryDirectory, cwd, dirs, files, status, lastTick,
                    pollResult, started, finished, testRunId, testRunRow,
                    callFailed, summary, saved >>

\* line 127: getFlowCoveragePercentage on the coverage answer
CallFlowCoveragePercentage ==
    /\ pc = "function"
    /\ \E coverageResult \in FlowCoverageResults :
         call' = [ fn |-> "getFlowCoveragePercentage",
                   coverageResult |-> coverageResult,
                   value |-> getFlowCoveragePercentage(coverageResult) ]
    /\ pc' = "called"
    /\ UNCHANGED << flags, info, infoFailed, baseSummary, errors,
                    orgSummaryDirectory, cwd, dirs, files, status, lastTick,
                    pollResult, started, finished, testRunId, testRunRow,
                    callFailed, summary, saved >>

\* the answers of the ApexOrgWideCoverage query: PercentCovered cells as the
\* CSV holds them
MaxPercentRows == 2
PercentValues == { 0, 75, 85 }
OrgWideAnswers ==
    { [kind |-> k, rows |-> << >>] : k \in QueryKinds }
    \cup { [kind |-> "rows", rows |-> r] :
             r \in SeqsUpTo({ [PercentCovered |-> CsvNumber(v)] : v \in PercentValues },
                            MaxPercentRows) }

\* line 113: getOrgWideApexCoverage on the answer of its query
CallOrgWideApexCoverage ==
    /\ pc = "function"
    /\ \E q \in OrgWideAnswers :
         call' = [ fn |-> "getOrgWideApexCoverage", q |-> q,
                   value |-> getOrgWideApexCoverage(q, cwd, dirs, orgSummaryDirectory) ]
    /\ pc' = "called"
    /\ UNCHANGED << flags, info, infoFailed, baseSummary, errors,
                    orgSummaryDirectory, cwd, dirs, files, status, lastTick,
                    pollResult, started, finished, testRunId, testRunRow,
                    callFailed, summary, saved >>

-----------------------------------------------------------------------------
(* countCodeLines and calculateCodeLines. *)

\* A source file is its lines, a line the pieces of text on it: code, the
\* start of a line comment, the start and the end of a block comment.  A
\* line without a piece is blank.
MaxFileLines == 3
MaxLinePieces == 3
MaxFilesCounted == 2
Pieces == { "code", "//", "/*", "*/" }
\* the files drawn: up to MaxFileLines lines of at most one piece, and one
\* line of up to MaxLinePieces pieces
SourceFiles ==
    SeqsUpTo(SeqsUpTo(Pieces, 1), MaxFileLines)
    \cup { << line >> : line \in SeqsUpTo(Pieces, MaxLinePieces) }

RECURSIVE FileText(_, _)
\* the content of the file from line i on, its lines joined by "\n"
FileText(lines, i) ==
    IF i > Len(lines) THEN << >>
    ELSE IF i = Len(lines) THEN lines[i]
    ELSE lines[i] \o << "\n" >> \o FileText(lines, i + 1)

RECURSIVE EndOfLine(_, _)
\* [^\n]*: the position of the next "\n" from i on, or the end of the text
EndOfLine(text, i) ==
    IF i > Len(text) \/ text[i] = "\n" THEN i ELSE EndOfLine(text, i + 1)

RECURSIVE BlockEnd(_, _)
\* [\s\S]*?\*\/: the position of the first block end from i on, 0 if none
BlockEnd(text, i) ==
    IF i > Len(text) THEN 0
    ELSE IF text[i] = "*/" THEN i
    ELSE BlockEnd(text, i + 1)

RECURSIVE CommentMatches(_, _)
\* the number of matches of /\/\/[^\n]*|\/\*[\s\S]*?\*\//g in the text from i
\* on: a line comment runs to the end of its line, a block comment to the
\* first block end, and a block start that is never closed matches nothing
CommentMatches(text, i) ==
    IF i > Len(text) THEN 0
    ELSE IF text[i] = "//" THEN 1 + CommentMatches(text, EndOfLine(text, i))
    ELSE IF text[i] = "/*" /\ BlockEnd(text, i + 1) # 0
    THEN 1 + CommentMatches(text, BlockEnd(text, i + 1) + 1)
    ELSE CommentMatches(text, i + 1)

\* fileContent.split('\n').filter(line => line.trim() !== '').length
NonBlankLines(lines) == Cardinality({ i \in 1..Len(lines) : Len(lines[i]) > 0 })

RECURSIVE countCodeLines(_, _)
\* countCodeLines over the files of a directory, from file i on: comments
\* are counted per match, lines per non-blank line
countCodeLines(codeFiles, i) ==
    IF i > Len(codeFiles)
    THEN [Total |-> 0, Comments |-> 0, Code |-> 0]
    ELSE LET rest == countCodeLines(codeFiles, i + 1)
             totalLines == NonBlankLines(codeFiles[i]) + rest.Total
             commentLines == CommentMatches(FileText(codeFiles[i], 1), 1) + rest.Comments
         IN  [Total |-> totalLines, Comments |-> commentLines,
              Code |-> totalLines - commentLines]

\* calculateCodeLines on the files of the five directories of the project
calculateCodeLines(project) ==
    LET apexClassCL == countCodeLines(project.classes, 1)
        apexTriggerCL == countCodeLines(project.triggers, 1)
        AuraDefinitionBundleCL == countCodeLines(project.aura, 1)
        LightningComponentBundleCL == countCodeLines(project.lwc, 1)
        StaticResourceCL == countCodeLines(project.staticresources, 1)
    IN  [ Apex |->
            [ Total |-> apexClassCL.Total + apexTriggerCL.Total,
              Comments |-> apexClassCL.Comments + apexTriggerCL.Comments,
              Code |-> apexClassCL.Code + apexTriggerCL.Code,
              Details |-> [ ApexClass |-> apexClassCL, ApexTrigger |-> apexTriggerCL ] ],
          JavaScript |->
            [ Total |-> AuraDefinitionBundleCL.Total + LightningComponentBundleCL.Total
                          + StaticResourceCL.Total,
              Comments |-> AuraDefinitionBundleCL.Comments
                             + LightningComponentBundleCL.Comments
                             + StaticResourceCL.Comments,
              Code |-> AuraDefinitionBundleCL.Code + LightningComponentBundleCL.Code
                         + StaticResourceCL.Code,
              Details |-> [ AuraDefinitionBundle |-> AuraDefinitionBundleCL,
                            LightningComponentBundle |-> LightningComponentBundleCL,
                            StaticResource |-> StaticResourceCL ] ] ]

\* files a directory is filled with when several directories are drawn: a
\* plain line, a line with its comment under a blank line, a block comment
\* over two lines, and a line holding two block comments
SampleFiles ==
    { << << "code" >> >>,
      << << >>, << "code", "//" >> >>,
      << << "/*", "code" >>, << "*/" >> >>,
      << << "/*", "*/", "/*", "*/" >> >> }
SampleDirectories == { << >> } \cup { << f >> : f \in SampleFiles }

\* the directories calculateCodeLines is called on: every file alone in the
\* classes directory, several sample files in it, and sample files in all
Projects ==
    { [classes |-> c, triggers |-> << >>, aura |-> << >>, lwc |-> << >>,
       staticresources |-> << >>] :
        c \in { << f >> : f \in SourceFiles } \cup SeqsUpTo(SampleFiles, MaxFilesCounted) }
    \cup { [classes |-> << >>, triggers |-> t, aura |-> a, lwc |-> l, staticresources |-> r] :
             t \in SampleDirectories, a \in SampleDirectories,
             l \in SampleDirectories, r \in SampleDirectories }

\* lines 96-97: calculateCodeLines and the Code fragment's line counts
CallCalculateCodeLines ==
    /\ pc = "function"
    /\ \E project \in Projects :
         LET codeLines == calculateCodeLines(project)
         IN  call' = [ fn |-> "calculateCodeLines", project |-> project,
                       LinesOfCode |-> codeLines.Apex.Total + codeLines.JavaScript.Total,
                       LineDetails |-> codeLines ]
    /\ pc' = "called"
    /\ UNCHANGED << flags, info, infoFailed, baseSummary, errors,
                    orgSummaryDirectory, cwd, dirs, files, status, lastTick,
                    pollResult, started, finished, testRunId, testRunRow,
                    callFailed, summary, saved >>

FunctionNext ==
    \/ CallCalculateCodeLines
    \/ CallOrgWideApexCoverage
    \/ CallQueryDataPoints
    \/ CallApexClassCoverageDetails
    \/ CallCheckLimits
    \/ CallGetHealthCheckScore
    \/ CallFlowCoverageDetails
    \/ CallFlowCoveragePercentage

FunctionSpec == FunctionInit /\ [][FunctionNext]_vars

-----------------------------------------------------------------------------
(* The claims. *)

Ended == pc \in { "returned", "threw" }
Range(seq) == { seq[i] : i \in 1..Len(seq) }
CountKey(errs, key) == Cardinality({ i \in 1..Len(errs) : errs[i].key = key })
HasError(key) == CountKey(errors, key) > 0
Waiting == { JSStr("Queued"), JSStr("Processing") }

\* the fixed order of the spec: Health, Limits, Code, Tests, Inventory
Rank(phase) ==
    CASE phase = "Health" -> 1
      [] phase = "Limits" -> 2
      [] phase = "Code" -> 3
      [] phase = "Tests" -> 4
      [] phase = "Inventory" -> 5

PhaseNames == { "Health", "Limits", "Code", "Tests", "Inventory" }

PhaseEnabled(phase) ==
    CASE phase = "Health" -> flags.healthcheck
      [] phase = "Limits" -> flags.limits
      [] phase = "Code" -> flags.codeanalysis
      [] phase = "Tests" -> flags.tests
      [] phase = "Inventory" -> Len(selectedDataPoints(flags)) > 0

ErrorKey(phase) ==
    CASE phase = "Health" -> "getHealthCheckScoreError"
      [] phase = "Limits" -> "checkLimitsError"
      [] phase = "Code" -> "calculateLinesOfCodeError"
      [] phase = "Tests" -> "runApexTestsError"
      [] phase = "Inventory" -> "componentSummaryError"

Fragment(phase) ==
    CASE phase = "Health" -> baseSummary.HealthCheck
      [] phase = "Limits" -> baseSummary.Limits
      [] phase = "Code" -> baseSummary.Code
      [] phase = "Tests" -> baseSummary.Tests
      [] phase = "Inventory" -> baseSummary.Metadata

\* the phase a call site belongs to
PhaseOfSite(site) ==
    IF site \in { "TestsSubmit", "TestsPoll", "TestsCollect" } THEN "Tests" ELSE site

\* C1: once summarizeOrg has run every enabled phase, the report's
\* ResultState is 'Failure' exactly when the error list is non-empty and
\* 'Completed' exactly when it is empty; the returned report carries it.
C1_ResultStateIffErrors ==
    Ended =>
        /\ (baseSummary.ResultState = "Failure") <=> (Len(errors) > 0)
        /\ (baseSummary.ResultState = "Completed") <=> (Len(errors) = 0)
        /\ pc = "returned" => summary.ResultState = baseSummary.ResultState

C1_Witness ==
    /\ pc = "returned"
    /\ Len(errors) > 0
    /\ summary.ResultState = "Failure"

\* C2: whatever phases are enabled and whatever calls fail inside them, a run
\* in which some phase recorded a failure still runs every enabled phase and
\* returns a report whose outcome state is 'Completed' or 'Failure'.
C2_NoPhaseFailureAborts ==
    (Ended /\ Len(errors) > 0) =>
        /\ pc = "returned"
        /\ summary.ResultState \in { "Completed", "Failure" }
        /\ \A phase \in PhaseNames : PhaseEnabled(phase) => phase \in Range(finished)

\* C3: when a collector call failed inside a phase block that has been left,
\* the error list holds exactly one error tagged with that phase, and the
\* final ResultState is 'Failure'.
C3_OneErrorPerFailedCall ==
    \A site \in callFailed :
        pc \notin { "poll", "collect" } =>
            /\ CountKey(errors, ErrorKey(PhaseOfSite(site))) = 1
            /\ Ended => baseSummary.ResultState = "Failure"

\* C4: when getOrgInfo could not resolve the org, no phase runs and no
\* report is returned or written.
C4_HaltsWithoutOrgInfo ==
    infoFailed =>
        /\ started = << >>
        /\ summary = Absent
        /\ saved = Absent

Recorded(phase) == Fragment(phase) # Absent \/ HasError(ErrorKey(phase))

PhasesInOrder ==
    /\ \A i, j \in 1..Len(started) : i < j => Rank(started[i]) < Rank(started[j])
    /\ Cardinality(Range(started) \ Range(finished)) <= 1

\* C5: the enabled phases start in the fixed order Health, Limits, Code,
\* Tests, Inventory, at most one is active at a time, and when a phase has
\* started every earlier enabled phase has finished with its fragment or its
\* error recorded.
C5_SequentialRecorded ==
    /\ PhasesInOrder
    /\ \A p \in Range(started) : \A q \in PhaseNames :
         (PhaseEnabled(q) /\ Rank(q) < Rank(p)) =>
             q \in Range(finished) /\ Recorded(q)

\* C6: in the poll loop, after a tick whose job-status query failed the job
\* is 'Failed' and the loop is over: the status is no longer one that polls.
C6_FailedQueryEndsPolling ==
    (pc = "poll" /\ lastTick.kind \in { "failed", "nostderr" }) =>
        /\ status = JSStr("Failed")
        /\ status \notin Waiting

\* a tick that found no job row: no row returned, or the query failed and
\* queryMetadata returned []
NoRowTick(tick) == tick.kind = "failed" \/ (tick.kind = "rows" /\ tick.rows = 0)

\* a tick that assigns the status: a row was read, or the query threw
SettingTick(tick) == tick.kind = "nostderr" \/ (tick.kind = "rows" /\ tick.rows > 0)

C7_PollState ==
    /\ (pc = "poll" /\ lastTick = NoTick) => status = JSStr("Queued")
    /\ pc = "poll" => pollResult = Absent
    /\ pollResult # Absent =>
         /\ pollResult \notin Waiting
         /\ pollResult = status
         /\ SettingTick(lastTick)

C7_PollStep ==
    (pc = "poll" /\ status \in Waiting) =>
        /\ pc' = "poll"
        /\ NoRowTick(lastTick') => status' = status

\* C7: the poller starts at 'Queued'; while the status is 'Queued' or
\* 'Processing' it stays in the loop, and a tick that finds no row leaves the
\* status as it was; it returns only after a tick assigned a status outside
\* {'Queued','Processing'}, and returns that status.
C7_PollsUntilTerminal == [] C7_PollState /\ [][C7_PollStep]_vars

C7_Witness ==
    /\ pc = "collect"
    /\ pollResult = JSStr("Completed")
    /\ "TestsPoll" \in callFailed

\* C8: the loop is unbounded, and once the job has reported a status other
\* than 'Queued' or 'Processing', or a status query has failed,
\* pollTestRunResult eventually returns.
C8_PollEventuallyReturns ==
    (pc = "poll" /\ (status \notin Waiting \/ lastTick.kind \in { "failed", "nostderr" }))
        ~> (pc # "poll")

\* C9: when a job-status query failed during the poll, the Tests block ends
\* with a runApexTestsError in the error list and the run ends in 'Failure'.
C9_PollFailureIsPhaseError ==
    ("TestsPoll" \in callFailed /\ pc \notin { "poll", "collect" }) =>
        /\ HasError("runApexTestsError")
        /\ Ended => baseSummary.ResultState = "Failure"

\* C10: for the test-run row the Tests phase read, TestOutcome is 'Pass'
\* exactly when the row's status is 'Completed' and its failed-method count
\* is 0, and 'Fail' otherwise.
C10_OutcomePassIffCompletedNoFailures ==
    (testRunRow # Absent /\ baseSummary.Tests # Absent) =>
        /\ baseSummary.Tests.TestOutcome \in { JSStr("Pass"), JSStr("Fail") }
        /\ (baseSummary.Tests.TestOutcome = JSStr("Pass"))
             <=> (testRunRow.Status = JSStr("Completed")
                  /\ ToNumber(testRunRow.MethodsFailed) = 0)

\* what the spec defines for C covered and U uncovered lines
SpecPercentage(C, U) == IF C + U = 0 THEN JSNum(0) ELSE Divide(100 * C, C + U)

\* a number of the report between 0 and 100
InPercentRange(v) ==
    /\ v.t = "number"
    /\ "special" \notin DOMAIN v
    /\ IF "n" \in DOMAIN v THEN v.n >= 0 /\ v.n <= 100
       ELSE v.num >= 0 /\ v.num <= 100 * v.den

\* C11: every Apex coverage row with C covered and U uncovered lines gets the
\* CoveragePercentage 0 when C+U = 0 and 100*C/(C+U) otherwise, a value
\* between 0 and 100.
C11_CoveragePercentage ==
    call.fn = "getApexClassCoverageDetails" =>
        /\ Len(call.value) = Len(call.rows)
        /\ \A i \in 1..Len(call.rows) :
             /\ call.value[i].CoveragePercentage
                  = SpecPercentage(ToNumber(call.rows[i].NumLinesCovered),
                                   ToNumber(call.rows[i].NumLinesUncovered))
             /\ InPercentRange(call.value[i].CoveragePercentage)

\* the entries of the response that carry both numbers, by position
CompleteEntries ==
    { i \in 1..Len(call.limitsData) :
        call.limitsData[i].Max.t = "number" /\ call.limitsData[i].Remaining.t = "number" }

DetailsNamed(i) ==
    { k \in 1..Len(baseSummary.Limits.Details) : baseSummary.Limits.Details[k].Name = i }

LimitsAnswered == call.fn = "checkLimits" /\ call.http = "ok"

\* C12: every entry of the limits response with Max = M and Remaining = R is
\* retained once with Usage = M - R, and Limits.Reached counts exactly the
\* entries with R = 0.
C12_UsageAndReached ==
    LimitsAnswered =>
        /\ \A i \in CompleteEntries :
             /\ Cardinality(DetailsNamed(i)) = 1
             /\ \A k \in DetailsNamed(i) :
                  LET limit == baseSummary.Limits.Details[k]
                  IN  /\ limit.Max = call.limitsData[i].Max
                      /\ limit.Remaining = call.limitsData[i].Remaining
                      /\ limit.Usage
                           = JSNum(call.limitsData[i].Max.n - call.limitsData[i].Remaining.n)
        /\ baseSummary.Limits.Reached
             = Cardinality({ i \in CompleteEntries : call.limitsData[i].Remaining.n = 0 })

C12_Witness ==
    /\ LimitsAnswered
    /\ call.limitsData = << [Max |-> JSNum(100), Remaining |-> JSNum(0)],
                            [Max |-> JSNum(100), Remaining |-> JSNum(40)] >>
    /\ baseSummary.Limits.Reached = 1
    /\ baseSummary.Limits.Details[2].Usage = JSNum(60)

\* C13: an entry that lacks Max or Remaining is dropped and no error is
\* recorded: it is not in Limits.Details, Limits.Applicable is the number of
\* retained entries, and Limits.Unattained = Applicable - Reached.
C13_IncompleteDropped ==
    LimitsAnswered =>
        /\ \A i \in 1..Len(call.limitsData) : i \notin CompleteEntries => DetailsNamed(i) = { }
        /\ baseSummary.Limits.Applicable = Len(baseSummary.Limits.Details)
        /\ baseSummary.Limits.Applicable = Cardinality(CompleteEntries)
        /\ baseSummary.Limits.Unattained
             = baseSummary.Limits.Applicable - baseSummary.Limits.Reached
        /\ errors = << >>

C13_Witness ==
    /\ LimitsAnswered
    /\ call.limitsData = << [Max |-> JSNum(100), Remaining |-> JSNum(40)],
                            [Max |-> JSNum(100), Remaining |-> JSUndefined] >>
    /\ baseSummary.Limits.Applicable = 1
    /\ baseSummary.Limits.Reached = 0
    /\ baseSummary.Limits.Unattained = 1
    /\ Len(baseSummary.Limits.Details) = 1

HealthProduced == call.fn = "getHealthCheckScore" /\ baseSummary.HealthCheck # Absent

RiskRows ==
    { i \in 1..Len(call.hcRisks) : call.hcRisks[i].RiskType # JSStr("MEETS_STANDARD") }

\* C14: in every HealthCheck fragment Risks is the number of rows whose
\* RiskType is not 'MEETS_STANDARD', Criteria the number of all rows,
\* Compliant + Risks = Criteria, and Details holds every row.
C14_HealthCounts ==
    HealthProduced =>
        /\ baseSummary.HealthCheck.Risks = Cardinality(RiskRows)
        /\ baseSummary.HealthCheck.Criteria = Len(call.hcRisks)
        /\ baseSummary.HealthCheck.Compliant + baseSummary.HealthCheck.Risks
             = baseSummary.HealthCheck.Criteria
        /\ baseSummary.HealthCheck.Details = call.hcRisks

C14_Witness ==
    /\ HealthProduced
    /\ Len(call.hcRisks) = 3
    /\ baseSummary.HealthCheck.Risks = 1
    /\ baseSummary.HealthCheck.Compliant = 2
    /\ \E i \in 1..3 : baseSummary.HealthCheck.Details[i].RiskType = JSStr("MEETS_STANDARD")

MetadataProduced == call.fn = "queryDataPoints" /\ baseSummary.Metadata # Absent

\* C15: the Metadata summary has an entry for a requested type exactly when
\* its query returned at least one row, with Total the row count and
\* LastModifiedDate the first row's; a type whose query is unsupported gets
\* no entry and adds nothing to the error list, so the outcome is not 'Failure'.
C15_InventoryEntries ==
    MetadataProduced =>
        /\ DOMAIN baseSummary.Metadata \subseteq Range(call.sel)
        /\ \A i \in 1..Len(call.sel) :
             LET answer == call.answers[i]
                 hasRows == answer.kind = "rows" /\ Len(answer.rows) > 0
             IN  /\ call.sel[i] \in DOMAIN baseSummary.Metadata <=> hasRows
                 /\ hasRows =>
                      /\ baseSummary.Metadata[call.sel[i]].Total = Len(answer.rows)
                      /\ baseSummary.Metadata[call.sel[i]].LastModifiedDate
                           = answer.rows[1].LastModifiedDate
                 /\ answer.kind = "unsupported" =>
                      /\ call.sel[i] \notin DOMAIN baseSummary.Metadata
                      /\ errors = << >>
                      /\ FinalResultState(errors) # "Failure"

C15_Witness ==
    /\ MetadataProduced
    /\ call.sel = << "Type1", "Type2" >>
    /\ Len(call.answers[1].rows) = 3
    /\ call.answers[2].kind = "unsupported"
    /\ DOMAIN baseSummary.Metadata = { "Type1" }
    /\ baseSummary.Metadata["Type1"]
         = [Total |-> 3, LastModifiedDate |-> JSStr("2024-01-03")]
    /\ errors = << >>

CodeProduced == baseSummary # Absent /\ baseSummary.Code # Absent

\* C16: a Code fragment over zero source lines (LinesOfCode = 0) has the
\* RisksPerLineRatio 0, never NaN or an infinite ratio.
C16_ZeroLinesRatioIsZero ==
    (CodeProduced /\ baseSummary.Code.LinesOfCode = 0) =>
        /\ "special" \notin DOMAIN baseSummary.Code.RisksPerLineRatio
        /\ baseSummary.Code.RisksPerLineRatio = JSNum(0)

\* C17: the Static Risk Analysis block leaves the working directory where it
\* was when the block was entered, whether its steps succeeded or one failed,
\* for every output directory.
C17_CodePhaseRestoresCwd == [][pc = "code" => cwd' = cwd]_vars

\* the run directory {outputdirectory}/{orgId}/{Timestamp} that lines 51-59
\* created, and the report file in it
CreatedRunDirectory == Resolve(Cwd0, orgSummaryDirectory)
ReportFile == CreatedRunDirectory \o << "orgsummary.json" >>
ReportFiles == { x \in files : Len(x) > 0 /\ x[Len(x)] = "orgsummary.json" }

\* C18: when summarizeOrg is over, the full report has been written as
\* orgsummary.json under {outputdirectory}/{orgId}/{Timestamp}/ if and only if
\* an output directory was supplied; without one no report file exists.
C18_SavedIffOutputDirectory ==
    Ended =>
        /\ flags.outputdirectory.given =>
             /\ ReportFile \in files
             /\ saved = baseSummary
        /\ ~flags.outputdirectory.given =>
             /\ ReportFiles = { }
             /\ saved = Absent

\* C19: every completed summarizeOrg run leaves a saved JSON summary file, in
\* the output directory if one was given and in the current directory if not.
C19_AlwaysSaved ==
    pc = "returned" =>
        /\ saved = summary
        /\ IF flags.outputdirectory.given
           THEN ReportFile \in files
           ELSE \E x \in ReportFiles : Under(x, Cwd0)

\* entries below the run directory, the report file apart
Scratch(entries) == { x \in entries : Under(x, CreatedRunDirectory) /\ x # ReportFile }

C20_FinishStep ==
    pc = "finish" =>
        /\ flags.keepdata =>
             /\ Scratch(files) \subseteq files'
             /\ Scratch(dirs) \subseteq dirs'
        /\ ~flags.keepdata =>
             /\ Scratch(files') = { }
             /\ Scratch(dirs') = { }
        /\ saved' # Absent => ReportFile \in files'

\* C20: with keepdata, finish deletes nothing in the run directory; without
\* it, finish removes every scratch file and subdirectory of the run
\* directory, and the orgsummary.json it then writes is still there when
\* finish is over.
C20_CleanupPolicy == [][C20_FinishStep]_vars

FragmentOf(report, phase) ==
    CASE phase = "Health" -> report.HealthCheck
      [] phase = "Limits" -> report.Limits
      [] phase = "Code" -> report.Code
      [] phase = "Tests" -> report.Tests
      [] phase = "Inventory" -> report.Metadata

RecordedPhases ==
    IF baseSummary = Absent THEN { }
    ELSE { phase \in PhaseNames : FragmentOf(baseSummary, phase) # Absent }

\* a recorded fragment is never changed by a later step
C22_FragmentKept ==
    \A phase \in RecordedPhases :
        FragmentOf(baseSummary', phase) = FragmentOf(baseSummary, phase)

\* at the end every recorded fragment is in the returned report, and in the
\* written one when an output directory was given; a phase whose error was
\* recorded has no fragment
C22_FragmentsDelivered ==
    /\ \A phase \in RecordedPhases : ~HasError(ErrorKey(phase))
    /\ (Ended /\ RecordedPhases # { }) =>
         /\ pc = "returned"
         /\ \A phase \in RecordedPhases :
              FragmentOf(summary, phase) = FragmentOf(baseSummary, phase)
         /\ flags.outputdirectory.given =>
              /\ saved # Absent
              /\ \A phase \in RecordedPhases :
                   FragmentOf(saved, phase) = FragmentOf(baseSummary, phase)

\* C22: a fragment recorded by a phase that succeeded stays as it is and is
\* in the final returned and written report whichever other phases fail,
\* and a failed phase leaves no fragment of its own.
C22_NoLossFromSuccessfulPhases == [] C22_FragmentsDelivered /\ [][C22_FragmentKept]_vars

\* C23: once finish has written the report no field of it is added or
\* changed: the report summarizeOrg returns is field for field the one
\* written to orgsummary.json.
C23_ReturnedIsWritten ==
    (pc = "returned" /\ saved # Absent) => summary = saved

\* what the Tests phase gets for its test run row, and where it writes
TestsOutcomeFrom(c, q) ==
    [ row |-> getTestRunDetails(q, c, dirs, orgSummaryDirectory),
      file |-> Resolve(c, PathAppend(orgSummaryDirectory, << "testRunDetails.json" >>)) ]

\* what the Inventory phase gets for the answers of its queries
InventoryOutcomeFrom(c, answers) ==
    queryDataPoints(selectedDataPoints(flags), answers, 1, c, dirs, files,
                    orgSummaryDirectory)

\* what finish does to the run directory and the report
FinishOutcomeFrom(c) ==
    finish(orgSummaryDirectory, baseSummary, flags.keepdata,
           flags.outputdirectory.given, c, dirs, files, saved)

\* C24: phases do not depend on each other: for the same collector
\* responses a later phase succeeds or fails, and produces the same fragment
\* in the same files, whatever happened in an earlier phase; a failed code
\* phase does not move the files of the Tests and Inventory phases or of
\* finish.  The outcome from the working directory the earlier phases left
\* is the outcome from the directory the run started in.
C24_PhasesIndependent ==
    /\ (pc = "tests" /\ flags.tests) =>
         RedirectOk(cwd, dirs, PathAppend(orgSummaryDirectory, << "testResults.json" >>))
           = RedirectOk(Cwd0, dirs, PathAppend(orgSummaryDirectory, << "testResults.json" >>))
    /\ pc = "collect" =>
         \A q \in TestRunAnswers : TestsOutcomeFrom(cwd, q) = TestsOutcomeFrom(Cwd0, q)
    /\ (pc = "inventory" /\ Len(selectedDataPoints(flags)) > 0) =>
         \A answers \in [1..Len(selectedDataPoints(flags)) -> InventoryAnswers] :
             InventoryOutcomeFrom(cwd, answers) = InventoryOutcomeFrom(Cwd0, answers)
    /\ pc = "finish" => FinishOutcomeFrom(cwd) = FinishOutcomeFrom(Cwd0)

\* the coverage rows of the call whose FlowVersionId is the given flow's
MatchingRows(flowDef) ==
    { m \in 1..Len(call.coverageResult.records) :
        call.coverageResult.records[m].FlowVersionId = flowDef.ActiveVersionId }

FlowDetailsAnswered ==
    /\ call.fn = "getFlowCoverageDetails"
    /\ call.coverageResult.ok /\ call.flowDefinitionsResult.ok

\* C25: every active flow definition is reported with the percentage of the
\* coverage row whose FlowVersionId is its ActiveVersionId, 100*C/(C+U) or 0
\* when C+U = 0, and with 0 when no row matches; every reported percentage is
\* a number between 0 and 100.
C25_FlowCoverageDetails ==
    FlowDetailsAnswered =>
        /\ Len(call.value) = Len(call.flowDefinitionsResult.records)
        /\ \A i \in 1..Len(call.value) :
             LET flowDef == call.flowDefinitionsResult.records[i]
                 reported == call.value[i].CoveragePercentage
             IN  /\ InPercentRange(reported)
                 /\ MatchingRows(flowDef) = { } => reported = JSNum(0)
                 /\ MatchingRows(flowDef) # { } =>
                      \E m \in MatchingRows(flowDef) :
                          reported = SpecPercentage(
                              call.coverageResult.records[m].NumElementsCovered,
                              call.coverageResult.records[m].NumElementsNotCovered)

\* C27: the overall flow coverage is the percentage of the first coverage
\* row alone, 0 when that row has no elements, and 0 when there is no
\* coverage row or the coverage query fails; it is not an average.
C27_FlowTotalFromFirstRow ==
    call.fn = "getFlowCoveragePercentage" =>
        call.value =
            IF call.coverageResult.ok /\ Len(call.coverageResult.records) > 0
            THEN SpecPercentage(call.coverageResult.records[1].NumElementsCovered,
                                call.coverageResult.records[1].NumElementsNotCovered)
            ELSE JSNum(0)

\* two rows with different percentages: the first one's is reported
C27_Witness ==
    /\ call.fn = "getFlowCoveragePercentage"
    /\ call.coverageResult.ok
    /\ Len(call.coverageResult.records) = 2
    /\ call.coverageResult.records[1].NumElementsCovered = 1
    /\ call.coverageResult.records[1].NumElementsNotCovered = 1
    /\ call.coverageResult.records[2].NumElementsCovered = 2
    /\ call.coverageResult.records[2].NumElementsNotCovered = 0
    /\ call.value = JSNum(50)

RECURSIVE PercentSum(_, _)
\* the sum of the PercentCovered values of rows 1..i, as numbers
PercentSum(rows, i) ==
    IF i = 0 THEN 0 ELSE PercentSum(rows, i - 1) + ToNumber(rows[i].PercentCovered)

\* C26: getOrgWideApexCoverage returns the arithmetic mean of the
\* PercentCovered values of the rows the org-wide coverage query returned,
\* and null when the row set is empty.
C26_OrgWideMean ==
    (call.fn = "getOrgWideApexCoverage" /\ call.q.kind = "rows") =>
        call.value =
            IF Len(call.q.rows) = 0 THEN JSNull
            ELSE Divide(PercentSum(call.q.rows, Len(call.q.rows)), Len(call.q.rows))

\* both health queries ran and the score query returned its row
HealthQueriesSucceeded ==
    /\ call.fn = "getHealthCheckScore"
    /\ call.scoreCmd = "ok" /\ call.riskCmd = "ok"
    /\ Len(call.hcScore) > 0

\* C28: when both queries of the Health Score phase succeed the phase reads
\* the risk rows from the file the risk query wrote and yields a HealthCheck
\* fragment holding them, with no error recorded, with a target username
\* and without one.
C28_HealthWithOrWithoutUsername ==
    HealthQueriesSucceeded =>
        /\ Resolve(cwd, PathAppend(orgSummaryDirectory, << "HCR.csv" >>)) \in files
        /\ baseSummary.HealthCheck # Absent
        /\ baseSummary.HealthCheck.Details = call.hcRisks
        /\ errors = << >>

\* the test run was submitted and no run identifier was found in its output
NoRunIdExtracted == testRunId = JSNull

\* C29: when the test run is submitted but no run identifier can be
\* extracted, the phase never polls, publishes no Tests fragment and appends
\* no error: a run with no other failure ends with ResultState 'Completed'
\* and a report without Tests.
C29_NoRunIdSkipsQuietly ==
    NoRunIdExtracted =>
        /\ pc \notin { "poll", "collect" }
        /\ status = Absent /\ lastTick = NoTick /\ pollResult = Absent
        /\ baseSummary.Tests = Absent
        /\ ~HasError("runApexTestsError")
        /\ (Ended /\ errors = << >>) => baseSummary.ResultState = "Completed"
        /\ (pc = "returned" /\ errors = << >>) =>
             /\ summary.ResultState = "Completed"
             /\ summary.Tests = Absent

\* a run of the Tests phase alone, ended without a run identifier
C29_Witness ==
    /\ NoRunIdExtracted
    /\ pc = "returned"
    /\ started = << "Tests" >> /\ finished = << "Tests" >>
    /\ errors = << >>
    /\ summary.ResultState = "Completed"
    /\ summary.Tests = Absent

\* the counts of the five subcategories and of the two categories
CountedCategories ==
    { call.LineDetails.Apex, call.LineDetails.JavaScript }
CountedSubcategories ==
    { call.LineDetails.Apex.Details.ApexClass,
      call.LineDetails.Apex.Details.ApexTrigger,
      call.LineDetails.JavaScript.Details.AuraDefinitionBundle,
      call.LineDetails.JavaScript.Details.LightningComponentBundle,
      call.LineDetails.JavaScript.Details.StaticResource }

\* the three numbers of a count, without its Details
Counts(k) == [Total |-> k.Total, Comments |-> k.Comments, Code |-> k.Code]

CountsAddUp ==
    /\ \A k \in { Counts(x) : x \in CountedCategories } \cup CountedSubcategories :
         k.Code + k.Comments = k.Total
    /\ call.LineDetails.Apex.Total
         = call.LineDetails.Apex.Details.ApexClass.Total
           + call.LineDetails.Apex.Details.ApexTrigger.Total
    /\ call.LineDetails.JavaScript.Total
         = call.LineDetails.JavaScript.Details.AuraDefinitionBundle.Total
           + call.LineDetails.JavaScript.Details.LightningComponentBundle.Total
           + call.LineDetails.JavaScript.Details.StaticResource.Total
    /\ call.LinesOfCode = call.LineDetails.Apex.Total + call.LineDetails.JavaScript.Total

\* C30: for every subcategory and for both categories Code + Comments =
\* Total and 0 <= Comments <= Total, so Code is never negative; a category's
\* Total is the sum of its subcategories' Totals and LinesOfCode is
\* Apex.Total + JavaScript.Total.
C30_LineCounts ==
    call.fn = "calculateCodeLines" =>
        /\ CountsAddUp
        /\ \A k \in { Counts(x) : x \in CountedCategories } \cup CountedSubcategories :
             /\ 0 <= k.Comments /\ k.Comments <= k.Total
             /\ k.Code >= 0

====
